---- MODULE Spec2Model ----
(***************************************************************************)
(* The asynchronous dispatcher of the Dashgram Go client: the bounded      *)
(* task channel (taskChan), the worker goroutines started by StartWorker,  *)
(* the lifecycle context (workerCtx / workerCancel), the wait group        *)
(* (workerWg), enqueueTask and Close.                                      *)
(*                                                                         *)
(* A Go select with several ready cases picks one of them at random, so    *)
(* each case of a select is an action of its own, enabled whenever its     *)
(* communication can proceed, whatever the other cases are.                *)
(*                                                                         *)
(* The worker goroutines all run the same loop over the same fields, so    *)
(* they are counted by where they are: blocked in the select (idle), inside*)
(* d.request with a task (inflight), or returned (exited).                 *)
(***************************************************************************)
EXTENDS Integers, Sequences, FiniteSets

\* ---------------------------------------------------------------- bounds
MaxStartWorker == 1     \* calls of the public StartWorker after New
NumProducers == 2       \* goroutines inside enqueueTask at the same time
MaxTasks == 3           \* enqueueTask calls in one behaviour
QueueCap == 2           \* capacity of taskChan (1000 in New)
MaxClose == 2           \* Close calls in one behaviour

\* numWorkers: the default of New, and the WithNumWorkers(3) of
\* TestDashgram_MultipleAsyncWorkers
DefaultNumWorkers == 1
TestNumWorkers == 3

\* A New that starts no worker at all
NewStartsNoWorker == 1 - 1

\* StartWorker calls made by New (one call, whatever numWorkers is)
NewStartWorkerCalls == 1

TaskIds == 1..MaxTasks

\* Origin: the default of New, and a WithOrigin value (TestNew)
DefaultOrigin == "Go + Dashgram SDK"
Origins == {DefaultOrigin, "Custom App"}

\* The HTTP client by the answer it gives to every request, as the mock clients
\* of the tests do: a 200 success envelope, a transport error or error
\* envelope, or a nil response with a nil error (which request dereferences).
ClientAnswers == {"ok", "err", "nilnil"}

NoInput == <<>>

\* What request returns for the answer of the HTTP client: nil for a 200
\* success envelope, an error for a transport error or an error envelope.
RequestResult(c) == IF c = "ok" THEN "nil" ELSE "err"

\* request dereferences resp after client.Do returned a nil response and a nil
\* error: a nil-pointer panic
RequestPanicsOn(c) == c = "nilnil"

VARIABLES
    numWorkers,       \* d.numWorkers, set by WithNumWorkers
    useAsync,         \* d.useAsync, set by WithUseAsync
    client,           \* d.client: how the HTTP client answers every request
    origin,           \* d.Origin, set by WithOrigin
    ctxDone,          \* the callers' contexts that are cancelled
    reqIn,            \* a request call: its data and what the HTTP client does
    reqOut,           \* what that request call returned
    cancelled,        \* workerCtx is cancelled (its Done channel is closed)
    taskChan,         \* d.taskChan: the buffered tasks, oldest first
    workerWg,         \* d.workerWg: the wait group's counter
    idle,             \* worker goroutines blocked in their select
    inflight,         \* the tasks inside d.request, one worker goroutine each
    exited,           \* worker goroutines that have returned
    calling,          \* the tasks whose enqueueTask call is inside its select
    nextId,           \* the next task's identity
    closePc,          \* the caller of Close: "idle", or "wait" inside workerWg.Wait
    closeReturned,    \* Close calls that have returned
    \* history, read by the properties only
    lateCall,         \* tasks whose enqueueTask call started after cancellation
    accepted,         \* tasks sent on taskChan
    dropped,          \* tasks whose enqueueTask took the Done case
    performed,        \* request calls the workers made, per task
    completed,        \* tasks whose request call returned
    inflightAtCancel, \* tasks inside request when workerCancel first ran
    queuedAtCancel,   \* tasks waiting in taskChan when workerCancel first ran
    \* the client facade
    input,            \* what the facade method that made call t was given
    reqArgs,          \* what the worker passed to d.request for task t
    inline,           \* calls of a sync method that are inside d.request
    syncRet,          \* what a sync method call returned: "pending" until then
    inlineCalls,      \* request calls made inline by the caller, per call
    crashed           \* a panic in a goroutine has ended the process

vars == <<numWorkers, useAsync, client, origin, ctxDone, reqIn, reqOut, input, reqArgs, inline, syncRet,
          inlineCalls, crashed, cancelled, taskChan, workerWg, idle, inflight, exited,
          calling, nextId, closePc, closeReturned, lateCall, accepted, dropped,
          performed, completed, inflightAtCancel, queuedAtCancel>>

hist == <<lateCall, accepted, dropped, performed, completed, inflightAtCancel,
          queuedAtCancel>>

opts == <<numWorkers, useAsync, client, origin>>

outside == <<ctxDone, reqIn, reqOut>>

facade == <<input, inline, syncRet, inlineCalls, crashed>>

\* Worker goroutines started so far, and those still in their loop
Spawned == idle + Cardinality(inflight) + exited
Running == idle + Cardinality(inflight)

SendAlwaysReady(q) == TRUE

SendReadyOnFullQueue(q) == Len(q) <= QueueCap

\* ------------------------------------------------------ channel, context
\* case d.taskChan <- task: a buffered send proceeds while the buffer has room
SendReady(q) == Len(q) < QueueCap

\* case task := <-d.taskChan: a receive proceeds while the buffer holds a task
RecvReady(q) == Len(q) > 0

DoneNeverReady(c) == FALSE

\* case <-d.workerCtx.Done(): proceeds once the context is cancelled
DoneReady(c) == c

\* A cancel that flips the state instead of setting it
CancelToggles(c) == ~c

\* d.workerCancel(): cancels workerCtx; cancelling again changes nothing
Cancel(c) == TRUE

\* A Close that does not wait for the workers
WaitSkipped(n) == TRUE

\* d.workerWg.Wait(): returns once the counter is zero
WaitReady(n) == n = 0

\* ------------------------------------------------------------------ New
\* ---------------------------------------------------------------------------
\* Tasks and request arguments

\* Contexts a caller passes: context.Background() and one of its own
Background == "context.Background()"
Ctxs == {Background, "ctx"}

\* A context the caller cancelled before passing it
\* (ctx, cancel := context.WithCancel(context.Background()); cancel())
CancelledCtx == "cancelled ctx"

\* Events (any value) and user ids a caller passes
Events == {"event1", "event2"}
UserIDs == {1, 2}

NoArgs == <<>>

\* TrackEventRequest{Origin: d.Origin, Updates: []any{event}}
TrackEventRequest(event) == [Updates |-> <<event>>, Origin |-> origin]

\* InvitedByRequest{UserID: userID, InvitedBy: invitedBy, Origin: d.Origin}
InvitedByRequest(userID, invitedBy) ==
    [UserID |-> userID, InvitedBy |-> invitedBy, Origin |-> origin]

TrackEventTaskDropsCtx(ctx, event) ==
    [ctx |-> Background, endpoint |-> "track", data |-> TrackEventRequest(event)]

\* The asyncTask that TrackEventAsyncWithContext hands to enqueueTask
TrackEventTask(ctx, event) ==
    [ctx |-> ctx, endpoint |-> "track", data |-> TrackEventRequest(event)]

\* The asyncTask that InvitedByAsyncWithContext hands to enqueueTask
InvitedByTask(ctx, userID, invitedBy) ==
    [ctx |-> ctx, endpoint |-> "invited_by",
     data |-> InvitedByRequest(userID, invitedBy)]

\* The asyncTask of a direct enqueueTask call (TestDashgram_enqueueTask)
TestTask == [ctx |-> Background, endpoint |-> "test", data |-> "test data"]

\* The asyncTask of call t, built from what the caller passed
Task(t) ==
    IF input[t] = NoInput THEN TestTask
    ELSE IF input[t][1] = "TrackEvent"
         THEN TrackEventTask(input[t][2], input[t][3])
         ELSE InvitedByTask(input[t][2], input[t][3], input[t][4])

\* d.request(task.ctx, task.endpoint, task.data) in the worker loop
WorkerRequestArgs(task) == <<task.ctx, task.endpoint, task.data>>

\* d.request(ctx, "track", requestData) in TrackEventWithContext
SyncTrackEventArgs(ctx, event) == <<ctx, "track", TrackEventRequest(event)>>

\* d.request(ctx, "invited_by", requestData) in InvitedByWithContext
SyncInvitedByArgs(ctx, userID, invitedBy) ==
    <<ctx, "invited_by", InvitedByRequest(userID, invitedBy)>>

\* ---------------------------------------------------------------------------
\* request

\* http.StatusForbidden
StatusForbidden == 403

\* Status codes a response carries: the ends of the 2xx range, their
\* neighbours, and the codes of the tests
StatusCodes == {199, 200, 204, 299, 300, 400, StatusForbidden, 500}

\* A response body: one whose read fails, one that json.Unmarshal rejects, or
\* a {status, details} envelope
Bodies ==
    {[form |-> f, status |-> "", details |-> ""] : f \in {"read error", "not JSON"}}
        \cup {[form |-> "envelope", status |-> s, details |-> d] :
                s \in {"success", "error", ""}, d \in {"ok", "bad request"}}

\* A request call by what decides its result: whether data is nil, marshals
\* or not, whether http.NewRequestWithContext takes the context and URL,
\* whether client.Do returns an error, and the response it returns
RequestInputs ==
    [data : {"nil", "ok", "unmarshalable"},
     newRequest : {"ok", "fail"},
     transport : {"ok", "err"},
     code : StatusCodes,
     body : Bodies]

\* The values request returns
Returned(kind, code, details) ==
    [kind |-> kind, StatusCode |-> code, Details |-> details]

NotCalled == Returned("not called", 0, "")
Nil == Returned("nil", 0, "")
InvalidCredentialsError == Returned("InvalidCredentialsError", 0, "")
DashgramAPIError(code, details) == Returned("DashgramAPIError", code, details)
Errorf(msg) == Returned(msg, 0, "")

IsRejectedUnlessOK(code, status) == code # 200 \/ status # "success"

\* resp.StatusCode < 200 || resp.StatusCode >= 300 || response.Status != "success"
IsRejected(code, status) == code < 200 \/ code >= 300 \/ status # "success"

RequestParsesBeforeStatus(in) ==
    IF in.data = "unmarshalable" THEN Errorf("failed to marshal request data")
    ELSE IF in.newRequest = "fail" THEN Errorf("failed to create request")
    ELSE IF in.transport = "err" THEN Errorf("request failed")
    ELSE IF in.body.form = "read error"
         THEN Errorf("failed to read response body")
    ELSE IF in.body.form = "not JSON" THEN Errorf("failed to parse response")
    ELSE IF in.code = StatusForbidden THEN InvalidCredentialsError
    ELSE IF IsRejected(in.code, in.body.status)
         THEN DashgramAPIError(in.code, in.body.details)
    ELSE Nil

\* d.request, in the order of its returns
Request(in) ==
    IF in.data = "unmarshalable" THEN Errorf("failed to marshal request data")
    ELSE IF in.newRequest = "fail" THEN Errorf("failed to create request")
    ELSE IF in.transport = "err" THEN Errorf("request failed")
    ELSE IF in.body.form = "read error"
         THEN Errorf("failed to read response body")
    ELSE IF in.code = StatusForbidden THEN InvalidCredentialsError
    ELSE IF in.body.form = "not JSON" THEN Errorf("failed to parse response")
    ELSE IF IsRejected(in.code, in.body.status)
         THEN DashgramAPIError(in.code, in.body.details)
    ELSE Nil

\* New with every option but WithNumWorkers left at its default
Init ==
    /\ numWorkers \in {DefaultNumWorkers, TestNumWorkers}
    /\ useAsync = FALSE
    /\ client = "ok"
    /\ origin = DefaultOrigin
    /\ ctxDone = {CancelledCtx}
    /\ reqIn = NoInput
    /\ reqOut = NotCalled
    /\ input = [t \in TaskIds |-> NoInput]
    /\ reqArgs = [t \in TaskIds |-> NoArgs]
    /\ inline = {}
    /\ syncRet = [t \in TaskIds |-> "none"]
    /\ inlineCalls = [t \in TaskIds |-> 0]
    /\ crashed = FALSE
    /\ cancelled = FALSE
    /\ taskChan = <<>>
    /\ workerWg = NewStartWorkerCalls
    /\ idle = NewStartWorkerCalls
    /\ inflight = {}
    /\ exited = 0
    /\ calling = {}
    /\ nextId = 1
    /\ closePc = "idle"
    /\ closeReturned = 0
    /\ lateCall = {}
    /\ accepted = {}
    /\ dropped = {}
    /\ performed = [t \in TaskIds |-> 0]
    /\ completed = {}
    /\ inflightAtCancel = {}
    /\ queuedAtCancel = {}

\* ---------------------------------------------------------- StartWorker
\* A StartWorker that starts the goroutine without workerWg.Add(1)
StartWorkerNoAdd ==
    /\ Spawned < NewStartWorkerCalls + MaxStartWorker
    /\ idle' = idle + 1
    /\ UNCHANGED <<opts, outside, facade, reqArgs, cancelled, taskChan, workerWg, inflight, exited,
                   calling, nextId, closePc, closeReturned, hist>>

\* The public StartWorker: workerWg.Add(1), then the goroutine is started.
StartWorker ==
    /\ Spawned < NewStartWorkerCalls + MaxStartWorker
    /\ workerWg' = workerWg + 1
    /\ idle' = idle + 1
    /\ UNCHANGED <<opts, outside, facade, reqArgs, cancelled, taskChan, inflight, exited, calling,
                   nextId, closePc, closeReturned, hist>>

\* A worker that reads the oldest task and leaves it in the queue
WorkerRecvLeavesTask ==
    /\ idle > 0
    /\ RecvReady(taskChan)
    /\ idle' = idle - 1
    /\ inflight' = inflight \cup {Head(taskChan)}
    /\ taskChan' = taskChan
    /\ performed' = [performed EXCEPT ![Head(taskChan)] = @ + 1]
    /\ reqArgs' = [reqArgs EXCEPT
                      ![Head(taskChan)] = WorkerRequestArgs(Task(Head(taskChan)))]
    /\ UNCHANGED <<opts, outside, facade, cancelled, workerWg, exited, calling, nextId,
                   closePc, closeReturned, lateCall, accepted, dropped,
                   completed, inflightAtCancel, queuedAtCancel>>

\* A worker that takes the newest task of the queue instead of the oldest
WorkerRecvNewest ==
    /\ idle > 0
    /\ RecvReady(taskChan)
    /\ idle' = idle - 1
    /\ inflight' = inflight \cup {taskChan[Len(taskChan)]}
    /\ taskChan' = SubSeq(taskChan, 1, Len(taskChan) - 1)
    /\ performed' = [performed EXCEPT ![taskChan[Len(taskChan)]] = @ + 1]
    /\ reqArgs' = [reqArgs EXCEPT ![taskChan[Len(taskChan)]] =
                      WorkerRequestArgs(Task(taskChan[Len(taskChan)]))]
    /\ UNCHANGED <<opts, outside, facade, cancelled, workerWg, exited, calling, nextId,
                   closePc, closeReturned, lateCall, accepted, dropped,
                   completed, inflightAtCancel, queuedAtCancel>>

\* A worker's select takes case task := <-d.taskChan and calls d.request.
WorkerRecv ==
    /\ idle > 0
    /\ RecvReady(taskChan)
    /\ idle' = idle - 1
    /\ inflight' = inflight \cup {Head(taskChan)}
    /\ taskChan' = Tail(taskChan)
    /\ performed' = [performed EXCEPT ![Head(taskChan)] = @ + 1]
    /\ reqArgs' = [reqArgs EXCEPT
                      ![Head(taskChan)] = WorkerRequestArgs(Task(Head(taskChan)))]
    /\ UNCHANGED <<opts, outside, facade, cancelled, workerWg, exited, calling, nextId,
                   closePc, closeReturned, lateCall, accepted, dropped,
                   completed, inflightAtCancel, queuedAtCancel>>

\* A worker loop that leaves when request returned an error
RequestReturnExitsOnError(t) ==
    /\ t \in inflight
    /\ inflight' = inflight \ {t}
    /\ completed' = completed \cup {t}
    /\ IF RequestResult(client) = "err"
       THEN /\ exited' = exited + 1
            /\ workerWg' = workerWg - 1
            /\ idle' = idle
       ELSE /\ idle' = idle + 1
            /\ UNCHANGED <<exited, workerWg>>
    /\ UNCHANGED <<opts, outside, facade, reqArgs, cancelled, taskChan, calling, nextId, closePc,
                   closeReturned, lateCall, accepted, dropped, performed,
                   inflightAtCancel, queuedAtCancel>>

\* d.request returns for task t; the worker discards the result and selects
\* again.
RequestReturn(t) ==
    /\ t \in inflight
    /\ inflight' = inflight \ {t}
    /\ idle' = idle + 1
    /\ completed' = completed \cup {t}
    /\ UNCHANGED <<opts, outside, facade, reqArgs, cancelled, taskChan, workerWg, exited, calling,
                   nextId, closePc, closeReturned, lateCall, accepted, dropped,
                   performed, inflightAtCancel, queuedAtCancel>>

\* A worker goroutine that returns without calling workerWg.Done()
WorkerExitNoDone ==
    /\ idle > 0
    /\ DoneReady(cancelled)
    /\ idle' = idle - 1
    /\ exited' = exited + 1
    /\ UNCHANGED <<opts, outside, facade, reqArgs, cancelled, taskChan, workerWg, inflight, calling,
                   nextId, closePc, closeReturned, hist>>

\* A worker that the lifecycle cancellation also stops in the middle of request
WorkerExitInterrupts ==
    /\ DoneReady(cancelled)
    /\ \/ idle > 0 /\ idle' = idle - 1 /\ inflight' = inflight
       \/ \E t \in inflight : inflight' = inflight \ {t} /\ idle' = idle
    /\ exited' = exited + 1
    /\ workerWg' = workerWg - 1
    /\ UNCHANGED <<opts, outside, facade, reqArgs, cancelled, taskChan, calling, nextId, closePc,
                   closeReturned, hist>>

\* A worker's select takes case <-d.workerCtx.Done(): the goroutine returns
\* and the deferred workerWg.Done() runs.
WorkerExit ==
    /\ idle > 0
    /\ DoneReady(cancelled)
    /\ idle' = idle - 1
    /\ exited' = exited + 1
    /\ workerWg' = workerWg - 1
    /\ UNCHANGED <<opts, outside, facade, reqArgs, cancelled, taskChan, inflight, calling, nextId,
                   closePc, closeReturned, hist>>

\* ---------------------------------------------------------- enqueueTask
\* A producer calls enqueueTask (through one of the async methods) with a new
\* task; at most NumProducers calls are in progress at a time.
EnqueueCall ==
    /\ Cardinality(calling) < NumProducers
    /\ nextId <= MaxTasks
    /\ calling' = calling \cup {nextId}
    /\ nextId' = nextId + 1
    /\ lateCall' = IF cancelled THEN lateCall \cup {nextId} ELSE lateCall
    /\ UNCHANGED <<opts, outside, facade, reqArgs, cancelled, taskChan, workerWg, idle, inflight,
                   exited, closePc, closeReturned, accepted, dropped, performed,
                   completed, inflightAtCancel, queuedAtCancel>>

\* An enqueueTask that refuses a task whose context is cancelled
EnqueueSendChecksCtx(t) ==
    /\ t \in calling
    /\ Task(t).ctx \notin ctxDone
    /\ SendReady(taskChan)
    /\ taskChan' = Append(taskChan, t)
    /\ accepted' = accepted \cup {t}
    /\ calling' = calling \ {t}
    /\ UNCHANGED <<opts, outside, facade, reqArgs, cancelled, workerWg, idle, inflight, exited,
                   nextId, closePc, closeReturned, lateCall, dropped, performed,
                   completed, inflightAtCancel, queuedAtCancel>>

\* enqueueTask's select takes case d.taskChan <- task.
EnqueueSend(t) ==
    /\ t \in calling
    /\ SendReady(taskChan)
    /\ taskChan' = Append(taskChan, t)
    /\ accepted' = accepted \cup {t}
    /\ calling' = calling \ {t}
    /\ UNCHANGED <<opts, outside, facade, reqArgs, cancelled, workerWg, idle, inflight, exited,
                   nextId, closePc, closeReturned, lateCall, dropped, performed,
                   completed, inflightAtCancel, queuedAtCancel>>

\* An enqueueTask that is a plain channel send, with no Done case
EnqueueNoDoneCase(t) == FALSE /\ UNCHANGED vars

\* enqueueTask's select takes case <-d.workerCtx.Done(): the task is dropped.
EnqueueDrop(t) ==
    /\ t \in calling
    /\ DoneReady(cancelled)
    /\ dropped' = dropped \cup {t}
    /\ calling' = calling \ {t}
    /\ UNCHANGED <<opts, outside, facade, reqArgs, cancelled, taskChan, workerWg, idle, inflight,
                   exited, nextId, closePc, closeReturned, lateCall, accepted,
                   performed, completed, inflightAtCancel, queuedAtCancel>>

\* ---------------------------------------------------------------- Close
\* Close is called: d.workerCancel() runs, then the caller enters Wait.
CloseCall ==
    /\ closePc = "idle"
    /\ closeReturned < MaxClose
    /\ cancelled' = Cancel(cancelled)
    /\ closePc' = "wait"
    /\ inflightAtCancel' = IF cancelled THEN inflightAtCancel ELSE inflight
    /\ queuedAtCancel' =
          IF cancelled THEN queuedAtCancel
          ELSE {taskChan[i] : i \in 1..Len(taskChan)}
    /\ UNCHANGED <<opts, outside, facade, reqArgs, taskChan, workerWg, idle, inflight, exited,
                   calling, nextId, closeReturned, lateCall, accepted, dropped,
                   performed, completed>>

\* d.workerWg.Wait() returns, and Close with it.
CloseReturn ==
    /\ closePc = "wait"
    /\ WaitReady(workerWg)
    /\ closePc' = "idle"
    /\ closeReturned' = closeReturned + 1
    /\ UNCHANGED <<opts, outside, facade, reqArgs, cancelled, taskChan, workerWg, idle, inflight,
                   exited, calling, nextId, hist>>

\* -------------------------------------------------------- specification
Next ==
    \/ StartWorker
    \/ WorkerRecv
    \/ \E t \in TaskIds : RequestReturn(t)
    \/ WorkerExit
    \/ EnqueueCall
    \/ \E t \in TaskIds : EnqueueSend(t)
    \/ \E t \in TaskIds : EnqueueDrop(t)
    \/ CloseCall
    \/ CloseReturn

Spec == Init /\ [][Next]_vars

\* Scheduling: a goroutine whose select has a ready case, or whose request call
\* is due to return, runs (weak fairness). A select with several ready cases
\* picks uniformly at random, so workers that reach their select again and
\* again with the Done case ready take it sooner or later (strong fairness).
Fairness ==
    /\ WF_vars(WorkerRecv)
    /\ \A t \in TaskIds : WF_vars(RequestReturn(t))
    /\ SF_vars(WorkerExit)
    /\ \A t \in TaskIds : WF_vars(EnqueueSend(t) \/ EnqueueDrop(t))
    /\ WF_vars(CloseReturn)

\* No action reads numWorkers, so the liveness checks start from the default
\* configuration alone.
FairInit == Init /\ numWorkers = DefaultNumWorkers

\* The client as New built it: the public StartWorker is not called again.
FairNext ==
    \/ WorkerRecv
    \/ \E t \in TaskIds : RequestReturn(t)
    \/ WorkerExit
    \/ EnqueueCall
    \/ \E t \in TaskIds : EnqueueSend(t)
    \/ \E t \in TaskIds : EnqueueDrop(t)
    \/ CloseCall
    \/ CloseReturn

FairSpec == FairInit /\ [][FairNext]_vars /\ Fairness

\* ---------------------------------------------------------------------------
\* A panic inside request

\* d.request panics inside the worker goroutine started by StartWorker. The
\* goroutine has no recover: its deferred workerWg.Done() runs and the panic
\* then ends the process, so nothing runs afterwards.
RequestPanics(t) ==
    /\ t \in inflight
    /\ RequestPanicsOn(client)
    /\ crashed' = TRUE
    /\ UNCHANGED <<opts, outside, input, reqArgs, inline, syncRet, inlineCalls, cancelled,
                   taskChan, workerWg, idle, inflight, exited, calling, nextId,
                   closePc, closeReturned, hist>>

\* New over a client whose Do returns a nil response with a nil error
PanicInit ==
    /\ numWorkers = DefaultNumWorkers
    /\ useAsync = FALSE
    /\ client \in {c \in ClientAnswers : RequestPanicsOn(c)}
    /\ origin = DefaultOrigin
    /\ ctxDone = {CancelledCtx}
    /\ reqIn = NoInput
    /\ reqOut = NotCalled
    /\ input = [t \in TaskIds |-> NoInput]
    /\ reqArgs = [t \in TaskIds |-> NoArgs]
    /\ inline = {}
    /\ syncRet = [t \in TaskIds |-> "none"]
    /\ inlineCalls = [t \in TaskIds |-> 0]
    /\ crashed = FALSE
    /\ cancelled = FALSE
    /\ taskChan = <<>>
    /\ workerWg = NewStartWorkerCalls
    /\ idle = NewStartWorkerCalls
    /\ inflight = {}
    /\ exited = 0
    /\ calling = {}
    /\ nextId = 1
    /\ closePc = "idle"
    /\ closeReturned = 0
    /\ lateCall = {}
    /\ accepted = {}
    /\ dropped = {}
    /\ performed = [t \in TaskIds |-> 0]
    /\ completed = {}
    /\ inflightAtCancel = {}
    /\ queuedAtCancel = {}

\* Every goroutine stops once the process has crashed.
PanicNext ==
    \/ ~crashed /\ StartWorker
    \/ ~crashed /\ WorkerRecv
    \/ ~crashed /\ \E t \in TaskIds : RequestPanics(t)
    \/ ~crashed /\ WorkerExit
    \/ ~crashed /\ EnqueueCall
    \/ ~crashed /\ \E t \in TaskIds : EnqueueSend(t)
    \/ ~crashed /\ \E t \in TaskIds : EnqueueDrop(t)
    \/ ~crashed /\ CloseCall
    \/ ~crashed /\ CloseReturn

PanicSpec == PanicInit /\ [][PanicNext]_vars

\* ---------------------------------------------------------------------------
\* The asynchronous methods with their arguments

\* TrackEventAsyncWithContext(ctx, event) builds its task and enters
\* enqueueTask (TrackEventAsync is this with context.Background()).
TrackEventAsyncWithContext(ctx, event) ==
    /\ Cardinality(calling) < NumProducers
    /\ nextId <= MaxTasks
    /\ input' = [input EXCEPT ![nextId] = <<"TrackEvent", ctx, event>>]
    /\ calling' = calling \cup {nextId}
    /\ nextId' = nextId + 1
    /\ lateCall' = IF cancelled THEN lateCall \cup {nextId} ELSE lateCall
    /\ UNCHANGED <<opts, outside, reqArgs, inline, syncRet, inlineCalls, crashed,
                   cancelled, taskChan, workerWg, idle, inflight, exited,
                   closePc, closeReturned, accepted, dropped, performed,
                   completed, inflightAtCancel, queuedAtCancel>>

\* InvitedByAsyncWithContext(ctx, userID, invitedBy) builds its task and
\* enters enqueueTask (InvitedByAsync is this with context.Background()).
InvitedByAsyncWithContext(ctx, userID, invitedBy) ==
    /\ Cardinality(calling) < NumProducers
    /\ nextId <= MaxTasks
    /\ input' = [input EXCEPT ![nextId] = <<"InvitedBy", ctx, userID, invitedBy>>]
    /\ calling' = calling \cup {nextId}
    /\ nextId' = nextId + 1
    /\ lateCall' = IF cancelled THEN lateCall \cup {nextId} ELSE lateCall
    /\ UNCHANGED <<opts, outside, reqArgs, inline, syncRet, inlineCalls, crashed,
                   cancelled, taskChan, workerWg, idle, inflight, exited,
                   closePc, closeReturned, accepted, dropped, performed,
                   completed, inflightAtCancel, queuedAtCancel>>

\* New with or without WithOrigin
ArgsInit ==
    /\ numWorkers = DefaultNumWorkers
    /\ useAsync = FALSE
    /\ client = "ok"
    /\ origin \in Origins
    /\ ctxDone = {CancelledCtx}
    /\ reqIn = NoInput
    /\ reqOut = NotCalled
    /\ input = [t \in TaskIds |-> NoInput]
    /\ reqArgs = [t \in TaskIds |-> NoArgs]
    /\ inline = {}
    /\ syncRet = [t \in TaskIds |-> "none"]
    /\ inlineCalls = [t \in TaskIds |-> 0]
    /\ crashed = FALSE
    /\ cancelled = FALSE
    /\ taskChan = <<>>
    /\ workerWg = NewStartWorkerCalls
    /\ idle = NewStartWorkerCalls
    /\ inflight = {}
    /\ exited = 0
    /\ calling = {}
    /\ nextId = 1
    /\ closePc = "idle"
    /\ closeReturned = 0
    /\ lateCall = {}
    /\ accepted = {}
    /\ dropped = {}
    /\ performed = [t \in TaskIds |-> 0]
    /\ completed = {}
    /\ inflightAtCancel = {}
    /\ queuedAtCancel = {}

\* Callers of the asynchronous methods and the worker, on a Running client
ArgsNext ==
    \/ \E ctx \in Ctxs, event \in Events :
            TrackEventAsyncWithContext(ctx, event)
    \/ \E ctx \in Ctxs, userID \in UserIDs :
            \E invitedBy \in UserIDs \ {userID} :
                InvitedByAsyncWithContext(ctx, userID, invitedBy)
    \/ \E t \in TaskIds : EnqueueSend(t)
    \/ WorkerRecv
    \/ \E t \in TaskIds : RequestReturn(t)

ArgsSpec == ArgsInit /\ [][ArgsNext]_vars

\* ---------------------------------------------------------------------------
\* The synchronous methods and the outcome of request

NeverDelegates(u) == FALSE

\* `if d.useAsync` at the head of TrackEventWithContext / InvitedByWithContext
DelegatesToAsync(u) == u

SyncSwallowsError(r) == "nil"

\* `return d.request(...)`: the synchronous method returns request's result
SyncReturnValue(r) == r

\* TrackEventWithContext / InvitedByWithContext (TrackEvent and InvitedBy call
\* them with context.Background()).  On a WithUseAsync client the call goes to
\* the ...Async form, which enters enqueueTask; otherwise the caller enters
\* request itself.
SyncMethodCall ==
    /\ Cardinality(calling \cup inline) < NumProducers
    /\ nextId <= MaxTasks
    /\ nextId' = nextId + 1
    /\ syncRet' = [syncRet EXCEPT ![nextId] = "pending"]
    /\ IF DelegatesToAsync(useAsync)
       THEN /\ calling' = calling \cup {nextId}
            /\ lateCall' = IF cancelled THEN lateCall \cup {nextId} ELSE lateCall
            /\ UNCHANGED <<inline, inlineCalls>>
       ELSE /\ inline' = inline \cup {nextId}
            /\ inlineCalls' = [inlineCalls EXCEPT ![nextId] = @ + 1]
            /\ UNCHANGED <<calling, lateCall>>
    /\ UNCHANGED <<opts, outside, input, reqArgs, crashed, cancelled, taskChan, workerWg, idle,
                   inflight, exited, closePc, closeReturned, accepted, dropped,
                   performed, completed, inflightAtCancel, queuedAtCancel>>

\* A sync method that returns only once a worker has performed its task
SyncWaitsForWorker(t) ==
    /\ DelegatesToAsync(useAsync)
    /\ syncRet[t] = "pending"
    /\ t \in completed
    /\ syncRet' = [syncRet EXCEPT ![t] = "nil"]
    /\ UNCHANGED <<opts, outside, input, reqArgs, inline, inlineCalls, crashed, cancelled,
                   taskChan, workerWg, idle, inflight, exited, calling, nextId,
                   closePc, closeReturned, hist>>

\* `return nil` after the ...Async form has returned from enqueueTask
SyncDelegatedReturn(t) ==
    /\ DelegatesToAsync(useAsync)
    /\ syncRet[t] = "pending"
    /\ t \notin calling
    /\ syncRet' = [syncRet EXCEPT ![t] = "nil"]
    /\ UNCHANGED <<opts, outside, input, reqArgs, inline, inlineCalls, crashed, cancelled,
                   taskChan, workerWg, idle, inflight, exited, calling, nextId,
                   closePc, closeReturned, hist>>

\* A synchronous method whose result depends on the lifecycle scope
SyncInlineReturnChecksLifecycle(t) ==
    /\ t \in inline
    /\ inline' = inline \ {t}
    /\ syncRet' = [syncRet EXCEPT ![t] =
                      IF cancelled THEN "err"
                      ELSE SyncReturnValue(RequestResult(client))]
    /\ UNCHANGED <<opts, outside, input, reqArgs, inlineCalls, crashed, cancelled, taskChan,
                   workerWg, idle, inflight, exited, calling, nextId, closePc,
                   closeReturned, hist>>

\* The inline request of a synchronous method returns, and the method returns
\* its result.
SyncInlineReturn(t) ==
    /\ t \in inline
    /\ inline' = inline \ {t}
    /\ syncRet' = [syncRet EXCEPT ![t] = SyncReturnValue(RequestResult(client))]
    /\ UNCHANGED <<opts, outside, input, reqArgs, inlineCalls, crashed, cancelled, taskChan,
                   workerWg, idle, inflight, exited, calling, nextId, closePc,
                   closeReturned, hist>>

\* New with WithUseAsync or not, over a client that answers with success or
\* with an error
FacadeInit ==
    /\ numWorkers = DefaultNumWorkers
    /\ useAsync \in BOOLEAN
    /\ client \in {c \in ClientAnswers : ~RequestPanicsOn(c)}
    /\ origin = DefaultOrigin
    /\ ctxDone = {CancelledCtx}
    /\ reqIn = NoInput
    /\ reqOut = NotCalled
    /\ input = [t \in TaskIds |-> NoInput]
    /\ reqArgs = [t \in TaskIds |-> NoArgs]
    /\ inline = {}
    /\ syncRet = [t \in TaskIds |-> "none"]
    /\ inlineCalls = [t \in TaskIds |-> 0]
    /\ crashed = FALSE
    /\ cancelled = FALSE
    /\ taskChan = <<>>
    /\ workerWg = NewStartWorkerCalls
    /\ idle = NewStartWorkerCalls
    /\ inflight = {}
    /\ exited = 0
    /\ calling = {}
    /\ nextId = 1
    /\ closePc = "idle"
    /\ closeReturned = 0
    /\ lateCall = {}
    /\ accepted = {}
    /\ dropped = {}
    /\ performed = [t \in TaskIds |-> 0]
    /\ completed = {}
    /\ inflightAtCancel = {}
    /\ queuedAtCancel = {}

\* The callers use the sync methods, and on a client without WithUseAsync the
\* ...Async methods as well (on a WithUseAsync client a sync method is the
\* ...Async method followed by `return nil`).
FacadeNext ==
    \/ SyncMethodCall
    \/ ~useAsync /\ EnqueueCall
    \/ \E t \in TaskIds : SyncDelegatedReturn(t)
    \/ \E t \in TaskIds : SyncInlineReturn(t)
    \/ \E t \in TaskIds : EnqueueSend(t)
    \/ \E t \in TaskIds : EnqueueDrop(t)
    \/ WorkerRecv
    \/ \E t \in TaskIds : RequestReturn(t)
    \/ WorkerExit
    \/ CloseCall
    \/ CloseReturn

FacadeSpec == FacadeInit /\ [][FacadeNext]_vars

\* ---------------------------------------------------------------------------
\* One producer

\* One goroutine makes the enqueueTask calls, one after the other (as the loop
\* of TestDashgram_MultipleAsyncWorkers does), so the calls start and return in
\* the order of their task ids; workers and Close run as in Next.
FifoNext ==
    \/ calling = {} /\ EnqueueCall
    \/ \E t \in TaskIds : EnqueueSend(t)
    \/ \E t \in TaskIds : EnqueueDrop(t)
    \/ StartWorker
    \/ WorkerRecv
    \/ \E t \in TaskIds : RequestReturn(t)
    \/ WorkerExit
    \/ CloseCall
    \/ CloseReturn

FifoSpec == Init /\ [][FifoNext]_vars

\* ---------------------------------------------------------------------------
\* The contexts of the tasks

\* What request returns for task t when it runs now: the HTTP client fails a
\* request whose context is cancelled, and answers the others as configured.
PerformResult(t) ==
    IF Task(t).ctx \in ctxDone THEN "err" ELSE RequestResult(client)

CancelTaskCtxStopsLifecycle(c) ==
    /\ c \notin ctxDone
    /\ ctxDone' = ctxDone \cup {c}
    /\ cancelled' = TRUE
    /\ UNCHANGED <<opts, reqIn, reqOut, facade, reqArgs, taskChan, workerWg, idle, inflight,
                   exited, calling, nextId, closePc, closeReturned, hist>>

\* A caller cancels a context of its own (the cancel function of
\* context.WithCancel): a child of context.Background(), as workerCtx is, so
\* neither is derived from the other.
CancelTaskCtx(c) ==
    /\ c \notin ctxDone
    /\ ctxDone' = ctxDone \cup {c}
    /\ UNCHANGED <<opts, reqIn, reqOut, facade, reqArgs, cancelled, taskChan, workerWg, idle,
                   inflight, exited, calling, nextId, closePc, closeReturned,
                   hist>>

\* Callers of TrackEventAsyncWithContext that pass a context of their own,
\* which they cancel at some time or have cancelled beforehand; the worker of
\* New; Close.
CtxNext ==
    \/ \E ctx \in (Ctxs \ {Background}) \cup {CancelledCtx} :
            TrackEventAsyncWithContext(ctx, "event1")
    \/ \E c \in Ctxs \ {Background} : CancelTaskCtx(c)
    \/ \E t \in TaskIds : EnqueueSend(t)
    \/ \E t \in TaskIds : EnqueueDrop(t)
    \/ WorkerRecv
    \/ \E t \in TaskIds : RequestReturn(t)
    \/ WorkerExit
    \/ CloseCall
    \/ CloseReturn

CtxSpec == FairInit /\ [][CtxNext]_vars

\* ---------------------------------------------------------------------------
\* Calls of request

\* One call of d.request from its entry to its return
RequestCall(in) ==
    /\ reqIn' = in
    /\ reqOut' = Request(in)
    /\ UNCHANGED <<opts, ctxDone, facade, reqArgs, cancelled, taskChan,
                   workerWg, idle, inflight, exited, calling, nextId, closePc,
                   closeReturned, hist>>

RequestNext == \E in \in RequestInputs : RequestCall(in)

RequestSpec == FairInit /\ [][RequestNext]_vars

\* ---------------------------------------------------------------------------
\* No worker started after Close

\* The user may call the public StartWorker until a Close call has returned,
\* and not again after that; producers, workers and Close run as in Next.
NoRestartNext ==
    \/ closeReturned = 0 /\ StartWorker
    \/ WorkerRecv
    \/ \E t \in TaskIds : RequestReturn(t)
    \/ WorkerExit
    \/ EnqueueCall
    \/ \E t \in TaskIds : EnqueueSend(t)
    \/ \E t \in TaskIds : EnqueueDrop(t)
    \/ CloseCall
    \/ CloseReturn

NoRestartSpec == Init /\ [][NoRestartNext]_vars

\* ---------------------------------------------------------------------------
\* The synchronous methods around Close

\* New without WithUseAsync
SyncInit == FacadeInit /\ ~useAsync

\* One goroutine calls the synchronous methods and Close one after the other,
\* as testIntegration does (TrackEvent, InvitedBy, then the deferred Close);
\* other goroutines call the ...Async methods, and the workers run as in Next.
SyncNext ==
    \/ closePc = "idle" /\ inline = {} /\ SyncMethodCall
    \/ \E t \in TaskIds : SyncInlineReturn(t)
    \/ inline = {} /\ CloseCall
    \/ CloseReturn
    \/ EnqueueCall
    \/ \E t \in TaskIds : EnqueueSend(t)
    \/ \E t \in TaskIds : EnqueueDrop(t)
    \/ WorkerRecv
    \/ \E t \in TaskIds : RequestReturn(t)
    \/ WorkerExit

SyncSpec == SyncInit /\ [][SyncNext]_vars

\* ----------------------------------------------------------- properties
InChan(t) == \E i \in 1..Len(taskChan) : taskChan[i] = t

\* C1: with WithNumWorkers(K), exactly K worker loops run from New until Close
\* cancels the lifecycle scope (as long as the public StartWorker is not called).
C1_ExactlyKWorkers ==
    (~cancelled /\ Spawned = NewStartWorkerCalls) => Running = numWorkers

\* C2: unless Close is called, every task accepted into the queue is eventually
\* passed to request, and no task is ever passed to request more than once.
C2_AcceptedEventuallyPerformedOnce ==
    /\ \A t \in TaskIds :
          (t \in accepted) ~> (cancelled \/ (performed[t] = 1 /\ ~InChan(t)))
    /\ [](\A t \in TaskIds : performed[t] <= 1)

C2_Witness ==
    /\ ~cancelled
    /\ Len(taskChan) > 0
    /\ \E t \in accepted : t \in completed /\ performed[t] = 1

\* C3: a task whose enqueueTask call started after the lifecycle scope was
\* cancelled is never passed to request.
C3_LateTaskNeverPerformed == \A t \in lateCall : performed[t] = 0

\* C4: an enqueueTask call started after cancellation can always return: in
\* every state one of its select cases is ready, whatever the queue holds.
C4_LateEnqueueNeverBlocks ==
    \A t \in calling \cap lateCall : ENABLED (EnqueueSend(t) \/ EnqueueDrop(t))

C4_Witness ==
    /\ Len(taskChan) = QueueCap
    /\ calling \cap lateCall # {}

\* C5: no task whose enqueueTask call started after cancellation is accepted
\* into the queue.
C5_LateTaskNeverAccepted == lateCall \cap accepted = {}

\* C6: a step in which Close returns happens only when every spawned worker
\* loop has exited, so none is inside request.
C6_CloseIsJoinBarrier ==
    [][closeReturned' > closeReturned => (Running = 0 /\ exited = Spawned)]_vars

C6_Witness ==
    /\ closeReturned >= 1
    /\ completed # {}
    /\ exited = Spawned

\* C7: a task that was inside request when Close cancelled the lifecycle scope
\* stays in that call until the call returns, and Close has not returned before
\* the call has.
C7_InflightCompletes ==
    \A t \in inflightAtCancel :
        /\ t \in completed \/ t \in inflight
        /\ closeReturned >= 1 => t \in completed

C7_Witness ==
    /\ closeReturned >= 1
    /\ inflightAtCancel # {}

\* C8: a Close call that is waiting eventually returns.
C8_CloseTerminates == (closePc = "wait") ~> (closePc = "idle")

C8_Witness ==
    /\ closeReturned >= 1
    /\ Len(taskChan) > 0
    /\ lateCall \cap accepted # {}

\* C9: once a Close call has returned, a further Close call changes neither
\* the lifecycle state, the queue, the workers, the wait group nor the request
\* calls made, and with no worker running its Wait can return at once.
C9_SecondCloseChangesNothing ==
    /\ [][(closeReturned >= 1 /\ (closePc' # closePc \/ closeReturned' # closeReturned))
            => /\ cancelled' = cancelled
               /\ taskChan' = taskChan
               /\ <<idle, inflight, exited>>' = <<idle, inflight, exited>>
               /\ workerWg' = workerWg
               /\ performed' = performed
               /\ completed' = completed]_vars
    /\ []((closeReturned >= 1 /\ closePc = "wait" /\ Running = 0)
            => ENABLED CloseReturn)

C9_Witness ==
    /\ closeReturned = 2
    /\ Len(taskChan) > 0
    /\ completed # {}

\* C11: when Close returns, every task that was accepted into the queue before
\* Close was called (waiting in taskChan or inside request at that time) has
\* been passed to request.
C11_CloseWaitsForPending ==
    closeReturned >= 1
        => \A t \in queuedAtCancel \cup inflightAtCancel : performed[t] >= 1

\* C10: once the lifecycle scope is cancelled no worker pulls another task
\* from the queue.
C10_NoPullAfterCancel ==
    [][cancelled => inflight' \subseteq inflight]_vars

\* C12: a worker never exits because request returned an error: when a request
\* call of a worker returns, whatever the result, that worker is back at its
\* select, ready for the next task, and a worker exits only when the lifecycle
\* scope is cancelled.
C12_WorkerSurvivesFailedPerform ==
    [][/\ exited' > exited => cancelled
       /\ \A t \in TaskIds :
            (t \in inflight /\ t \notin inflight')
                => (idle' = idle + 1 /\ exited' = exited /\ workerWg' = workerWg)]_vars

\* Over a failing client the one worker of New has performed a second task
\* after the first one failed, and has not exited.
C12_Witness ==
    /\ RequestResult(client) = "err"
    /\ ~cancelled
    /\ numWorkers = DefaultNumWorkers
    /\ Cardinality(completed) >= 2
    /\ exited = 0

\* C13: a panic inside request is caught at the worker-loop boundary: it never
\* gets out of the worker goroutine, so the process (and with it the worker)
\* keeps running.
C13_PanicIsCaught == ~crashed

\* C14: with WithNumWorkers(K), K > 1, the performs are not serialized to one
\* at a time: while the client is Running with only the workers New gave it,
\* a task waits in the queue and fewer than K request calls are in progress, a
\* worker is at its select to take the waiting task (so that K request calls
\* in progress at the same time can be reached).
C14_PerformsNotSerialized ==
    (/\ numWorkers > 1
     /\ ~cancelled
     /\ Spawned = NewStartWorkerCalls
     /\ RecvReady(taskChan)
     /\ Cardinality(inflight) < numWorkers)
        => idle > 0

\* C15: on a WithUseAsync client a call of TrackEvent, TrackEventWithContext,
\* InvitedBy or InvitedByWithContext never calls request inline, and what it
\* returns is nil, whatever the worker's request returns later.
C15_AsyncClientSyncMethodsReturnNil ==
    useAsync =>
        /\ inline = {}
        /\ \A t \in TaskIds :
             /\ inlineCalls[t] = 0
             /\ syncRet[t] \in {"none", "pending", "nil"}

\* A sync method of a WithUseAsync client has returned nil for a call whose
\* task the worker performed with an error.
C15_Witness ==
    /\ useAsync
    /\ RequestResult(client) = "err"
    /\ \E t \in TaskIds : syncRet[t] = "nil" /\ t \in completed

\* The caller of call t can take its next step now, without a step of any
\* worker: its select in enqueueTask has a ready case, or the sync method of a
\* WithUseAsync client is at its `return nil`.
CallerCanProceed(t) ==
    ENABLED (EnqueueSend(t) \/ EnqueueDrop(t) \/ SyncDelegatedReturn(t))

\* A call of an asynchronous method, or of a sync method on a WithUseAsync
\* client, that has not returned yet
AsyncCallOpen(t) ==
    t \in calling \/ (DelegatesToAsync(useAsync) /\ syncRet[t] = "pending")

C17_SyncCallIsOneInlineRequest ==
    ~useAsync =>
        \A t \in TaskIds :
            syncRet[t] # "none" =>
                /\ inlineCalls[t] = 1
                /\ t \notin calling \cup accepted \cup dropped
                /\ performed[t] = 0
                /\ (t \in inline <=> syncRet[t] = "pending")
                /\ syncRet[t] \in {"pending", RequestResult(client)}

\* A sync method has returned the error of its one inline request.
C17_Witness ==
    /\ ~useAsync
    /\ \E t \in TaskIds :
         /\ syncRet[t] = "err"
         /\ RequestResult(client) = "err"
         /\ inlineCalls[t] = 1

\* C18: the request call a worker makes for the task of an asynchronous call
\* has the arguments the synchronous form makes its inline request call with
\* for the same client and inputs: the caller's context, the endpoint "track"
\* (TrackEvent) or "invited_by" (InvitedBy), and the same payload.
C18_AsyncPerformArgsAsSync ==
    \A t \in TaskIds :
        (performed[t] >= 1 /\ input[t] # NoInput) =>
            /\ reqArgs[t][1] = input[t][2]
            /\ input[t][1] = "TrackEvent" =>
                 /\ reqArgs[t][2] = "track"
                 /\ reqArgs[t] = SyncTrackEventArgs(input[t][2], input[t][3])
            /\ input[t][1] = "InvitedBy" =>
                 /\ reqArgs[t][2] = "invited_by"
                 /\ reqArgs[t] =
                        SyncInvitedByArgs(input[t][2], input[t][3], input[t][4])

\* On a WithOrigin client a worker has performed a TrackEvent task and an
\* InvitedBy task, both made with the caller's own context.
C18_Witness ==
    /\ origin # DefaultOrigin
    /\ \E t, u \in TaskIds :
         /\ performed[t] >= 1 /\ input[t] # NoInput
         /\ input[t][1] = "TrackEvent" /\ input[t][2] # Background
         /\ performed[u] >= 1 /\ input[u] # NoInput
         /\ input[u][1] = "InvitedBy" /\ input[u][2] # Background

\* C19: an enqueueTask call waiting on a full queue is released when a worker
\* frees a slot or Close cancels the lifecycle scope: its send case is ready as
\* soon as the queue has a free slot and its Done case as soon as the scope is
\* cancelled; it returns only by its task being accepted into a free slot or
\* being dropped under a cancelled scope; and once Close has been called no
\* call stays in enqueueTask forever.
C19_BlockedEnqueueIsReleased ==
    /\ [](\A t \in calling :
            /\ Len(taskChan) < QueueCap => ENABLED EnqueueSend(t)
            /\ cancelled => ENABLED EnqueueDrop(t))
    /\ [][\A t \in TaskIds :
            (t \in calling /\ t \notin calling')
                => \/ t \in accepted' /\ Len(taskChan) < QueueCap
                   \/ t \in dropped' /\ cancelled]_vars
    /\ \A t \in TaskIds : (t \in calling /\ cancelled) ~> (t \notin calling)

\* Close found the queue full with a call waiting in enqueueTask, and that
\* call has returned with its task dropped.
C19_Witness ==
    /\ Cardinality(queuedAtCancel) = QueueCap
    /\ \E t \in dropped : t \notin lateCall

\* C20: enqueueTask suspends its caller only when the queue is full and the
\* lifecycle scope is not cancelled: a call in its select has no ready case
\* exactly in that state, and returns without waiting in every other.
C20_SuspendsOnlyWhenFullAndRunning ==
    \A t \in calling :
        (~ENABLED (EnqueueSend(t) \/ EnqueueDrop(t)))
            <=> (Len(taskChan) = QueueCap /\ ~cancelled)

\* A caller is suspended in enqueueTask: the queue is full and the client is
\* Running.
C20_Witness ==
    /\ calling # {}
    /\ Len(taskChan) = QueueCap
    /\ ~cancelled

\* C21: the number of tasks held in taskChan never exceeds its capacity,
\* whatever the producers, the workers and Close do.
C21_QueueWithinCapacity == Len(taskChan) <= QueueCap

\* The queue is full with a producer still inside enqueueTask while a Close
\* call waits for the workers.
C21_Witness ==
    /\ Len(taskChan) = QueueCap
    /\ calling # {}
    /\ closePc = "wait"

\* C22: tasks are pulled in FIFO order: when one producer's enqueueTask call
\* for task A has returned with A accepted before its call for task B starts,
\* B is pulled by a worker only after A has been pulled. (With one producer
\* the calls are in the order of the ids, so A < B and A accepted says that A
\* was accepted before the call for B began.)
C22_PulledInFifoOrder ==
    \A A, B \in TaskIds :
        (A < B /\ A \in accepted /\ performed[B] >= 1) => performed[A] >= 1

\* Two workers are inside request for two tasks of the producer at the same
\* time, a third task of it waiting behind them.
C22_Witness ==
    /\ Cardinality(inflight) = 2
    /\ RecvReady(taskChan)
    /\ \A t \in inflight : Head(taskChan) > t

\* C23: each enqueued task is performed at most once: the number of request
\* calls made for it is 0 or 1, a task a worker has pulled is no longer in the
\* queue, and only an accepted task is ever performed.
C23_PerformedAtMostOnce ==
    \A t \in TaskIds :
        /\ performed[t] \in {0, 1}
        /\ performed[t] = 1 => (t \in accepted /\ ~InChan(t))
        /\ t \in inflight => performed[t] = 1

\* With two workers and Close: one task was performed, one was dropped and one
\* was abandoned in the queue when Close returned.
C23_Witness ==
    /\ closeReturned >= 1
    /\ Spawned >= 2
    /\ \E t \in completed : performed[t] = 1
    /\ \E t \in dropped : performed[t] = 0
    /\ \E t \in accepted : InChan(t) /\ performed[t] = 0

\* C24: the lifecycle only moves forward: the scope is live from New until the
\* first Close call, that call cancels it, and no step of an asynchronous call,
\* a synchronous call, a worker or a later Close makes it live again.
C24_LifecycleOnlyMovesForward ==
    /\ [][cancelled => cancelled']_vars
    /\ [](cancelled <=> (closePc = "wait" \/ closeReturned >= 1))

\* After two Close calls have returned, a call made on the closed client has
\* returned and the scope is still cancelled.
C24_Witness ==
    /\ closeReturned = MaxClose
    /\ cancelled
    /\ \E t \in lateCall : t \notin calling

\* C25: Close leaves every task's own context as it is, and cancelling a
\* task's context neither cancels the lifecycle scope nor stops or starts a
\* worker: a step that changes one of the two scopes leaves the other, and
\* a worker exits only under a cancelled lifecycle scope.
C25_ScopesAreIndependent ==
    [][/\ cancelled' # cancelled => ctxDone' = ctxDone
       /\ ctxDone' # ctxDone =>
            /\ cancelled' = cancelled
            /\ <<idle, inflight, exited, workerWg>>' =
                   <<idle, inflight, exited, workerWg>>
       /\ exited' > exited => cancelled]_vars

\* Close has returned with the context of an abandoned task still live, after
\* the worker performed a task whose context was cancelled.
C25_Witness ==
    /\ closeReturned >= 1
    /\ \E t \in TaskIds : InChan(t) /\ Task(t).ctx \notin ctxDone
    /\ \E t \in completed : Task(t).ctx \in ctxDone

\* C27: a task enqueued with an already-cancelled context is treated like any
\* other: the send case of its enqueueTask is ready whenever the queue has a
\* free slot, a worker at its select can pull whatever task heads the queue,
\* and when its request has failed the worker is back at its select without
\* having exited, so a task enqueued after it is performed in turn.
C27_CancelledCtxTaskLikeAnyOther ==
    /\ [](\A t \in calling :
            (Task(t).ctx \in ctxDone /\ SendReady(taskChan))
                => ENABLED EnqueueSend(t))
    /\ []((idle > 0 /\ RecvReady(taskChan)) => ENABLED WorkerRecv)
    /\ [][\A t \in TaskIds :
            (t \in inflight /\ t \notin inflight' /\ PerformResult(t) = "err")
                => (idle' = idle + 1 /\ exited' = exited)]_vars

\* On a Running client the worker has performed a task that was enqueued with
\* the cancelled context, and after it a task with a live context.
C27_Witness ==
    /\ ~cancelled
    /\ \E t, u \in completed :
         /\ t < u
         /\ Task(t).ctx = CancelledCtx
         /\ Task(u).ctx \notin ctxDone

\* C26: New starts the worker whether or not WithUseAsync is given: on a client
\* built without it a worker runs as long as the lifecycle scope is live, and a
\* TrackEventAsync / InvitedByAsync call made before Close leads to its task
\* being performed by a worker (or to Close being called first).
C26_WorkerRunsWithoutUseAsync ==
    /\ []((~useAsync /\ ~cancelled) => Running >= 1)
    /\ \A t \in TaskIds :
         (~useAsync /\ t \in calling /\ t \notin lateCall)
             ~> (cancelled \/ performed[t] = 1)

\* On a Running client built without WithUseAsync the worker has performed
\* every task the callers enqueued.
C26_Witness ==
    /\ ~useAsync
    /\ ~cancelled
    /\ \A t \in TaskIds : t \in completed

\* The HTTP client returned a response without a transport error, its status
\* code is in 200..299, and its body parses as the envelope with the status
\* field "success".
SuccessResponse(in) ==
    /\ in.data # "unmarshalable"
    /\ in.newRequest = "ok"
    /\ in.transport = "ok"
    /\ in.code \in 200..299
    /\ in.body.form = "envelope"
    /\ in.body.status = "success"

GotResponse(in) ==
    /\ in.data # "unmarshalable"
    /\ in.newRequest = "ok"
    /\ in.transport = "ok"

\* The parts of C29 about a response other than 403 and about a transport
\* error: a parsed body with a status code outside 200..299 or a status field
\* other than "success" gives a DashgramAPIError with that code and the
\* body's details; a transport error gives the "request failed" error.
ClassifiedOtherThan403(in, out) ==
    /\ (/\ GotResponse(in)
        /\ in.code # StatusForbidden
        /\ in.body.form = "envelope"
        /\ (in.code \notin 200..299 \/ in.body.status # "success"))
           => out = DashgramAPIError(in.code, in.body.details)
    /\ (in.data # "unmarshalable" /\ in.newRequest = "ok" /\ in.transport = "err")
           => out = Errorf("request failed")

\* C29 (as stated): a 403 response always yields InvalidCredentialsError,
\* whatever its body; other failed responses and transport errors are
\* classified as above.
C29_403AlwaysInvalidCredentials ==
    reqOut # NotCalled =>
        /\ (GotResponse(reqIn) /\ reqIn.code = StatusForbidden)
               => reqOut = InvalidCredentialsError
        /\ ClassifiedOtherThan403(reqIn, reqOut)

\* C29 (amended): a 403 response whose body can be read yields
\* InvalidCredentialsError whatever the body holds, an unparseable one too;
\* when reading the body fails the result is the "failed to read response
\* body" error, whatever the status code; the rest as stated.
C29_403WithReadableBody ==
    reqOut # NotCalled =>
        /\ (/\ GotResponse(reqIn)
            /\ reqIn.code = StatusForbidden
            /\ reqIn.body.form # "read error")
               => reqOut = InvalidCredentialsError
        /\ (GotResponse(reqIn) /\ reqIn.body.form = "read error")
               => reqOut = Errorf("failed to read response body")
        /\ ClassifiedOtherThan403(reqIn, reqOut)

\* request has returned InvalidCredentialsError for a 403 response whose body
\* is not JSON.
C29_Witness ==
    /\ reqOut = InvalidCredentialsError
    /\ reqIn.code = StatusForbidden
    /\ reqIn.body.form = "not JSON"

\* C30: in every reachable state the number of request calls in progress on
\* behalf of queued tasks is at most the configured worker count numWorkers.
C30_InflightAtMostNumWorkers == Cardinality(inflight) <= numWorkers

\* ---------------------------------------------------------------------------
\* C31: tasks are conserved. In every reachable state the tasks accepted into
\* the queue are exactly the tasks still in taskChan, the tasks in flight in a
\* worker and the tasks whose request call has returned, each counted once
\* (so the number accepted is the sum of the three numbers); and a worker
\* performs no task that no enqueueTask call sent on taskChan.
C31_TasksAreConserved ==
    /\ Cardinality(accepted) =
          Len(taskChan) + Cardinality(inflight) + Cardinality(completed)
    /\ accepted = {taskChan[i] : i \in 1..Len(taskChan)} \cup inflight \cup completed
    /\ \A t \in TaskIds : performed[t] > 0 => t \in accepted

\* One accepted task waits in the queue, one is inside request and one has
\* completed.
C31_Witness ==
    /\ Len(taskChan) = 1
    /\ Cardinality(inflight) = 1
    /\ Cardinality(completed) = 1
    /\ Cardinality(accepted) = 3

\* ---------------------------------------------------------------------------
\* C32: once a Close call has returned, and as long as StartWorker is not
\* called after that, no worker starts a request call again: no step raises
\* the number of request calls made for any task or puts a task in flight, and
\* no worker is left to take a task, whatever taskChan holds and whatever
\* enqueueTask calls are made afterwards.
C32_QuiescentAfterClose ==
    /\ [][closeReturned >= 1 =>
            (performed' = performed /\ inflight' \subseteq inflight)]_vars
    /\ [](closeReturned >= 1 => (Running = 0 /\ ~ENABLED WorkerRecv))

\* Close has returned after two workers exited (one started by New, one by
\* StartWorker), and a task sent by a call made after the cancellation waits
\* in the queue unperformed while a further call is in progress.
C32_Witness ==
    /\ closeReturned >= 1
    /\ exited = NewStartWorkerCalls + MaxStartWorker
    /\ calling # {}
    /\ \E t \in lateCall \cap accepted : InChan(t) /\ performed[t] = 0

\* ---------------------------------------------------------------------------
\* C33: on a client built without WithUseAsync, a call of a synchronous method
\* enters request inline and returns what request returns, before Close and
\* after it (the inline request can return whatever the lifecycle state is),
\* and neither the call nor its return changes the queue, the lifecycle state,
\* the workers, the wait group or the enqueueTask calls in progress.
C33_SyncPathIndependentOfDispatcher ==
    /\ [][(~useAsync /\ inline' # inline) =>
            /\ taskChan' = taskChan
            /\ cancelled' = cancelled
            /\ <<idle, inflight, exited, workerWg>>' = <<idle, inflight, exited, workerWg>>
            /\ <<calling, accepted, dropped, performed>>' =
                   <<calling, accepted, dropped, performed>>
            /\ \A t \in inline' \ inline : inlineCalls'[t] = inlineCalls[t] + 1
            /\ \A t \in inline \ inline' : syncRet'[t] = RequestResult(client)]_vars
    /\ [](~useAsync => \A t \in inline : ENABLED SyncInlineReturn(t))

\* After Close has returned and every worker has exited, a synchronous call
\* is inside its inline request on a client whose requests fail, while a task
\* waits in the queue.
C33_Witness ==
    /\ ~useAsync
    /\ closeReturned >= 1
    /\ closePc = "idle"
    /\ Running = 0
    /\ Len(taskChan) > 0
    /\ RequestResult(client) = "err"
    /\ \E t \in inline : inlineCalls[t] = 1 /\ syncRet[t] = "pending"

\* ---------------------------------------------------------------------------
\* C34: a call of the public StartWorker made while the lifecycle scope is not
\* cancelled adds exactly one worker loop, counted in workerWg, and changes
\* nothing else; the added worker receives from the same taskChan as the
\* worker New started (any idle worker can take the oldest task); and a step
\* in which Close returns happens only when every worker started so far, by
\* New or by StartWorker, has exited, so in particular every worker started
\* before that Close was called.
C34_StartWorkerAddsOneJoinedWorker ==
    /\ [][(~cancelled /\ Spawned' # Spawned) =>
            /\ Spawned' = Spawned + 1
            /\ idle' = idle + 1
            /\ workerWg' = workerWg + 1
            /\ <<taskChan, inflight, exited, cancelled, closePc, closeReturned>>' =
                   <<taskChan, inflight, exited, cancelled, closePc, closeReturned>>]_vars
    /\ [](workerWg = Running)
    /\ []((idle > 0 /\ Len(taskChan) > 0) => ENABLED WorkerRecv)
    /\ [][closeReturned' > closeReturned => (Running = 0 /\ exited = Spawned)]_vars

\* Two workers, one started by New and one by StartWorker, were both inside
\* request for tasks of the one queue when Close was called, and Close has
\* returned after both exited.
C34_Witness ==
    /\ Spawned = NewStartWorkerCalls + 1
    /\ Cardinality(inflightAtCancel) = 2
    /\ inflightAtCancel \subseteq completed
    /\ closeReturned >= 1
    /\ exited = Spawned
====
